---- MODULE Spec2Model ----
(***************************************************************************)
(* Model of the bus bridge of fvtt-bwo-integration.                        *)
(*                                                                         *)
(*   scripts/lib/bus.js        Emitter (on/once/off/emit/clear), the       *)
(*                             sender plumbing (setSender/send/isReady)    *)
(*   scripts/lib/bus-frame.js  mountBusBridge: the bridge controller       *)
(*                             (src/unnamed/part_001, lines 45-198)        *)
(*                                                                         *)
(* Two specifications share the module:                                    *)
(*   SpecBridge  one mounted controller and the sender plumbing; every     *)
(*               action is one whole handler (a public method, the load    *)
(*               event, the queued microtask, a send by a consumer).       *)
(*               bus.emit calls made by a handler are recorded, in order,  *)
(*               with the state a listener would observe at that moment.   *)
(*   SpecHub     the Emitter alone, with emission passes run listener by   *)
(*               listener so that listeners can subscribe, unsubscribe,    *)
(*               throw and emit while a pass is in progress.               *)
(***************************************************************************)
EXTENDS Integers, Sequences, FiniteSets, TLC

\* ------------------------------------------------------------------ bounds
\* MessageChannels one controller may create in a behaviour.
MaxPorts == 2
\* Reconnect microtasks that may be queued at once.
MaxMicro == 1
\* Calls made on the Emitter in a behaviour, by consumers and by listeners.
MaxCalls == 5
\* Channels one Channel Transport may create
MaxChannels == 2

\* ------------------------------------------------------------------ values
Undef == "undefined"
Null == "null"
NoPort == 0

\* window.location: the document the host runs in.
LocationOrigin == "https://host.test"

\* A URL string, kept as its parts: origin "" is a relative reference.
MkUrl(o, p, q) == [origin |-> o, path |-> p, query |-> q]
UrlA == MkUrl("https://example.test", "/frame.html", "")
UrlR == MkUrl("", "frame.html", "")
Urls == {UrlA, UrlR}
\* next.src when update is given no string for it
NoSrc == MkUrl(Undef, "", "")

\* new URL(u, window.location.href).origin
OriginOf(u) == IF u.origin = "" THEN LocationOrigin ELSE u.origin

\* next.src + (next.src.includes("?") ? "&" : "?") + "_ts=" + Date.now()
CacheBust(u) == [u EXCEPT !.query = IF @ = "" THEN "?_ts" ELSE "&_ts"]

\* options.targetOrigin / next.targetOrigin
TargetOrigins == {Undef, Null, "*"}

\* Outcome of iframeEl.contentWindow.postMessage(...): it returns or throws.
PostOutcomes == {"ok", "throws"}

\* ------------------------------------------------------------------ state
VARIABLES
  src,           \* const src of mountBusBridge (options.src)
  targetOrigin,  \* const targetOrigin of mountBusBridge
  iframeEl,      \* "el" | Null
  frameSrc,      \* iframeEl.src
  attached,      \* the element is a child of parent
  listening,     \* the load listener is attached to the element
  port,          \* the controller's port: a channel id, or NoPort
  loaded,        \* loaded flag
  openPorts,     \* channel ids whose port1 is not closed
  transferred,   \* the post that carried port2 of the current port returned
  nextPort,      \* id of the next MessageChannel
  post,          \* _post of bus.js: Null or "fn" (the closure set by connect)
  micro,         \* queued reconnect microtasks
  posts,         \* postMessage calls made by the last handler
  events,        \* bus.emit calls made by the last handler
  sent,          \* port.postMessage calls made by the last handler
  last           \* the last handler: its name, inputs, result, pre-state

bridgeVars == <<src, targetOrigin, iframeEl, frameSrc, attached, listening,
                port, loaded, openPorts, transferred, nextPort, post, micro,
                posts, events, sent, last>>

\* The Emitter of bus.js
VARIABLES
  map,       \* this.map: topic -> [id, items], the Set object and its
             \* entries in insertion order; id NoSet when the key is absent
  nextSet,   \* id of the next Set object
  wrappers,  \* the closures once() made: the Set its off captured, its fn,
             \* and how many times it has called fn
  stack,     \* the emit calls in progress, innermost last
  escaped,   \* an error left emit and reached emit's caller
  ncalls,    \* calls made on the Emitter so far
  lastCall   \* the consumer's last registry call: its kind, whether it was
             \* redundant, whether it left the registry as it was

hubVars == <<map, nextSet, wrappers, stack, escaped, ncalls, lastCall>>

\* The Channel Transport
VARIABLES
  connected,   \* connected flag
  nchan,       \* MessageChannels created so far
  port1,       \* port1: a channel id, or NoPort while it is undefined
  handshakes,  \* the win.postMessage calls made so far
  handlers,    \* the handlers Set, in insertion order
  lastT        \* the last call: its name, inputs, result, pre-state

chanVars == <<connected, nchan, port1, handshakes, handlers, lastT>>

vars == <<bridgeVars, hubVars, chanVars>>

\* The controller and sender state as one value, so that handlers compose.
S == [src |-> src, targetOrigin |-> targetOrigin, iframeEl |-> iframeEl,
      frameSrc |-> frameSrc, attached |-> attached, listening |-> listening,
      port |-> port, loaded |-> loaded, openPorts |-> openPorts,
      transferred |-> transferred, nextPort |-> nextPort, post |-> post, micro |-> micro,
      posts |-> <<>>, events |-> <<>>, sent |-> <<>>]

Commit(s) ==
  /\ src' = s.src
  /\ targetOrigin' = s.targetOrigin
  /\ iframeEl' = s.iframeEl
  /\ frameSrc' = s.frameSrc
  /\ attached' = s.attached
  /\ listening' = s.listening
  /\ port' = s.port
  /\ loaded' = s.loaded
  /\ openPorts' = s.openPorts
  /\ transferred' = s.transferred
  /\ nextPort' = s.nextPort
  /\ post' = s.post
  /\ micro' = s.micro
  /\ posts' = s.posts
  /\ events' = s.events
  /\ sent' = s.sent

\* ------------------------------------------------------------------ bus.js
\* isReady(): !!_post
isReady(s) == s.post # Null

\* bus.emit(topic, e) as seen from the controller: the call, and what a
\* listener of the topic observes when it runs.
emit(s, topic, e) ==
  [s EXCEPT !.events = Append(@, [topic |-> topic, payload |-> e,
                                  ready |-> isReady(s),
                                  portOpen |-> s.port \in s.openPorts,
                                  openPorts |-> s.openPorts,
                                  frameSrc |-> s.frameSrc])]

\* Mutant of setSender: nothing is emitted when the sender does not change.
setSenderQuiet(s, fn) ==
  IF s.post = fn THEN s
  ELSE emit([s EXCEPT !.post = fn], "bridge:sender",
            IF fn # Null THEN "true" ELSE "false")

\* setSender(fn): _post = fn; bus.emit("bridge:sender", { ready: !!fn })
setSender(s, fn) ==
  emit([s EXCEPT !.post = fn], "bridge:sender",
       IF fn # Null THEN "true" ELSE "false")

\* The closure (data) => port?.postMessage(data): it reads the controller's
\* port variable when it is called.
senderCall(s) ==
  IF s.port # NoPort
    THEN [s EXCEPT !.sent = Append(@, [port |-> s.port,
                                       open |-> s.port \in s.openPorts])]
    ELSE s

\* send(data, options): the state after the call
send(s) == IF s.post # Null THEN senderCall(s) ELSE s

\* Mutant of sendResult: send reports success whether or not it sent.
sendResultAlways(s, throwIfOffline) == "true"

\* send(data, options): "true", "false" or "throw"
sendResult(s, throwIfOffline) ==
  IF s.post # Null THEN "true"
  ELSE IF throwIfOffline THEN "throw" ELSE "false"

\* ------------------------------------------------------------ bus-frame.js
\* Mutant of closePort: the previous port is left open.
closePortNoop(s) == s

\* try { port?.close?.() } catch {}
closePort(s) == [s EXCEPT !.openPorts = @ \ {s.port}]

\* Mutant of resolveOrigin: the handshake is posted to any origin.
resolveOriginAny(s) == "*"

\* targetOrigin ?? new URL(src, window.location.href).origin
resolveOrigin(s) ==
  IF s.targetOrigin \notin {Undef, Null} THEN s.targetOrigin
  ELSE OriginOf(s.src)

\* connect(), with the outcome of the handshake post
connect(s, outcome) ==
  IF s.iframeEl = Null \/ ~s.loaded THEN s
  ELSE LET origin == resolveOrigin(s)
           s1 == closePort(s)
           mc == s1.nextPort
           s2 == [s1 EXCEPT !.port = mc, !.nextPort = mc + 1,
                            !.openPorts = @ \cup {mc},
                            !.transferred = (outcome = "ok")]
           s3 == [s2 EXCEPT !.posts = Append(@, [type |-> "connect",
                                                 origin |-> origin,
                                                 transfer |-> <<mc>>,
                                                 outcome |-> outcome])]
           s4 == setSender(s3, "fn")
       IN  emit(s4, "bridge:open", origin)

\* onIframeLoad()
onIframeLoad(s, outcome) == connect([s EXCEPT !.loaded = TRUE], outcome)

\* Mutant of disconnect: listeners are told of the close first.
disconnectAnnouncesFirst(s) ==
  LET s1 == emit(s, "bridge:close", Undef)
      s2 == setSender(s1, Null)
  IN  [closePort(s2) EXCEPT !.port = NoPort, !.transferred = FALSE]

\* Mutant of disconnect: the port is closed and dropped, the sender is kept.
disconnectKeepsSender(s) ==
  emit([closePort(s) EXCEPT !.port = NoPort, !.transferred = FALSE],
       "bridge:close", Undef)

\* disconnect()
disconnect(s) ==
  LET s1 == setSender(s, Null)
      s2 == closePort(s1)
      s3 == [s2 EXCEPT !.port = NoPort, !.transferred = FALSE]
  IN  emit(s3, "bridge:close", Undef)

\* Mutant of destroy: the frame is detached but the reference is kept.
destroyKeepsElement(s) ==
  LET s1 == disconnect(s)
  IN  IF s1.iframeEl # Null
        THEN [s1 EXCEPT !.listening = FALSE, !.attached = FALSE]
        ELSE s1

\* destroy()
destroy(s) ==
  LET s1 == disconnect(s)
  IN  IF s1.iframeEl # Null
        THEN [s1 EXCEPT !.listening = FALSE, !.attached = FALSE,
                        !.iframeEl = Null]
        ELSE s1

\* update(next): needsSrcChange and newOrigin
needsSrcChange(s, nextSrc) == nextSrc \in Urls /\ nextSrc # s.src
newOriginOf(s, nextOrigin) ==
  IF nextOrigin # Undef THEN nextOrigin ELSE s.targetOrigin

\* Values a frame can post on the channel: tag tells what the value is, topic
\* and payload are its properties of those names (Undef when it has none).
Msg(tag, topic, payload) == [tag |-> tag, topic |-> topic, payload |-> payload]
EmptyObject == Msg("{}", Undef, Undef)
NoData == Msg(Undef, Undef, Undef)
Messages == { Msg("envelope", "bwo:roll", "n5"),   \* { topic, payload }
              Msg("envelope", "", "n5"),           \* { topic: "", payload }
              Msg("object", Undef, Undef),         \* an object with no topic
              Msg("zero", Undef, Undef),           \* the number 0
              EmptyObject }
Truthy(v) == v.tag # "zero"
TruthyTopic(topic) == topic \notin {Undef, ""}

\* port.onmessage = (e) => { ... }
onmessage(s, e) ==
  LET data == IF Truthy(e) THEN e ELSE EmptyObject
      topic == data.topic
      payload == data.payload
  IN  IF TruthyTopic(topic)
        THEN emit(emit(s, topic, payload), "bridge:message",
                  Msg("envelope", topic, payload))
        ELSE emit(s, "bridge:message", data)

\* Mutant of update: with the source unchanged it reconnects at once.
updateSync(s, nextSrc, nextOrigin) ==
  LET s1 == disconnect(s)
      s2 == IF needsSrcChange(s, nextSrc) /\ s1.iframeEl # Null
              THEN [s1 EXCEPT !.frameSrc = nextSrc, !.loaded = FALSE]
              ELSE s1
  IN  IF ~needsSrcChange(s, nextSrc) THEN connect(s2, "ok") ELSE s2

\* update(next)
update(s, nextSrc, nextOrigin) ==
  LET s1 == disconnect(s)
      s2 == IF needsSrcChange(s, nextSrc) /\ s1.iframeEl # Null
              THEN [s1 EXCEPT !.frameSrc = IF nextSrc = s.src
                                             THEN CacheBust(nextSrc)
                                             ELSE nextSrc,
                              !.loaded = FALSE]
              ELSE s1
  IN  IF ~needsSrcChange(s, nextSrc)
        THEN [s2 EXCEPT !.micro = @ + 1]
        ELSE s2

\* The microtask queued by update: () => { connect() }
reconnectMicrotask(s, outcome) == connect([s EXCEPT !.micro = @ - 1], outcome)

\* ----------------------------------------------------------------- actions
NoInput == "-"

\* The record of a handler: prev is the handler before it, newOrigin the
\* value the latest update computed for its newOrigin (the mount option until
\* then), pre the state the handler started in.
Done(op, nextSrc, nextOrigin, outcome, ret) ==
  /\ last' = [op |-> op, prev |-> last.op, nextSrc |-> nextSrc,
           nextOrigin |-> nextOrigin,
           newOrigin |-> IF op = "update" THEN newOriginOf(S, nextOrigin)
                         ELSE last.newOrigin,
           outcome |-> outcome, ret |-> ret, data |-> NoData, pre |-> S]
  /\ UNCHANGED <<hubVars, chanVars>>

InBounds(s) == s.nextPort <= MaxPorts + 1 /\ s.micro <= MaxMicro

\* mountBusBridge(options): the state when it returns
InitBridge ==
  /\ src \in Urls
  /\ targetOrigin \in TargetOrigins
  /\ iframeEl = "el"
  /\ frameSrc = src
  /\ attached = TRUE
  /\ listening = TRUE
  /\ port = NoPort
  /\ loaded = FALSE
  /\ openPorts = {}
  /\ transferred = FALSE
  /\ nextPort = 1
  /\ post = Null
  /\ micro = 0
  /\ posts = <<>>
  /\ events = <<>>
  /\ sent = <<>>
  /\ last = [op |-> "mount", prev |-> NoInput, nextSrc |-> NoSrc,
             nextOrigin |-> NoInput, newOrigin |-> targetOrigin,
             outcome |-> NoInput, ret |-> NoInput, data |-> NoData,
             pre |-> [src |-> src, targetOrigin |-> targetOrigin,
                      iframeEl |-> Null, frameSrc |-> src,
                      attached |-> FALSE, listening |-> FALSE,
                      port |-> NoPort, loaded |-> FALSE, openPorts |-> {},
                      transferred |-> FALSE, nextPort |-> 1, post |-> Null, micro |-> 0,
                      posts |-> <<>>, events |-> <<>>, sent |-> <<>>]]

\* The frame's load event: a task, so it runs with no microtask pending.
Load ==
  /\ listening
  /\ micro = 0
  /\ \E o \in PostOutcomes :
       LET s == onIframeLoad(S, o)
       IN  /\ InBounds(s)
           /\ Commit(s)
           /\ Done("load", NoSrc, NoInput, o, NoInput)

\* controls.connect()
Connect ==
  \E o \in PostOutcomes :
    LET s == connect(S, o)
    IN  /\ InBounds(s)
        /\ Commit(s)
        /\ Done("connect", NoSrc, NoInput, o, NoInput)

\* controls.disconnect()
Disconnect ==
  /\ Commit(disconnect(S))
  /\ Done("disconnect", NoSrc, NoInput, NoInput, NoInput)

\* controls.destroy()
Destroy ==
  /\ Commit(destroy(S))
  /\ Done("destroy", NoSrc, NoInput, NoInput, NoInput)

\* controls.update(next)
Update ==
  \E nextSrc \in Urls \cup {NoSrc}, nextOrigin \in TargetOrigins :
    LET s == update(S, nextSrc, nextOrigin)
    IN  /\ InBounds(s)
        /\ Commit(s)
        /\ Done("update", nextSrc, nextOrigin, NoInput, NoInput)

\* The microtask checkpoint runs one queued reconnect.
RunMicrotask ==
  /\ micro > 0
  /\ \E o \in PostOutcomes :
       LET s == reconnectMicrotask(S, o)
       IN  /\ InBounds(s)
           /\ Commit(s)
           /\ Done("microtask", NoSrc, NoInput, o, NoInput)

\* A consumer calls send(data, { throwIfOffline })
Send ==
  \E t \in BOOLEAN :
    /\ Commit(send(S))
    /\ Done("send", NoSrc, NoInput, IF t THEN "throwIfOffline" ELSE NoInput,
            sendResult(S, t))

\* The frame posts a value on the port it was handed: port.onmessage runs.
PortMessage ==
  /\ port \in openPorts
  /\ transferred
  /\ \E e \in Messages :
       /\ Commit(onmessage(S, e))
       /\ last' = [op |-> "message", prev |-> last.op, nextSrc |-> NoSrc,
                   nextOrigin |-> NoInput, newOrigin |-> last.newOrigin,
                   outcome |-> NoInput, ret |-> NoInput, data |-> e,
                   pre |-> S]
       /\ UNCHANGED <<hubVars, chanVars>>

NextBridge ==
  \/ PortMessage
  \/ Load
  \/ Connect
  \/ Disconnect
  \/ Destroy
  \/ Update
  \/ RunMicrotask
  \/ Send


\* ================================================================ Emitter
\* Topics and listener functions the hub's consumers use.
Topics == {"bwo:roll", "bridge:open"}
Fns == {"f", "g"}

NoSet == 0
\* A listener: a consumer's function (id 0), or the closure that once()
\* builds around one (id: which closure).
Plain(fn) == [kind |-> "fn", id |-> 0, fn |-> fn]
Wrapper(w, fn) == [kind |-> "once", id |-> w, fn |-> fn]
\* The Unsubscribe closure returned by on(): it captured the Set and fn.
Handle(set, l) == [set |-> set, l |-> l]
NoHandle == Handle(NoSet, Plain("-"))

Absent == [id |-> NoSet, items |-> <<>>]

H == [map |-> map, nextSet |-> nextSet, wrappers |-> wrappers]

CommitHub(h) ==
  /\ UNCHANGED <<bridgeVars, chanVars>>
  /\ map' = h.map
  /\ nextSet' = h.nextSet
  /\ wrappers' = h.wrappers

Has(seq, x) == \E i \in 1..Len(seq) : seq[i] = x
Without(seq, x) == SelectSeq(seq, LAMBDA y : y # x)

\* Mutant of SetAdd: adding an entry again moves it to the end.
SetAddMoves(items, l) == Append(Without(items, l), l)

\* set.add(fn): a Set keeps one entry per function, at its first position
SetAdd(items, l) == IF Has(items, l) THEN items ELSE Append(items, l)

\* Emitter.on(topic, fn)
on(h, topic, l) ==
  LET fresh == h.map[topic].id = NoSet
      id == IF fresh THEN h.nextSet ELSE h.map[topic].id
      items == IF fresh THEN <<>> ELSE h.map[topic].items
  IN  [h EXCEPT !.map[topic] = [id |-> id, items |-> SetAdd(items, l)],
                !.nextSet = IF fresh THEN @ + 1 ELSE @]

\* The Set that on(topic, ...) adds to, and that its Unsubscribe captures
setOf(h, topic) ==
  IF h.map[topic].id = NoSet THEN h.nextSet ELSE h.map[topic].id

\* Emitter.once(topic, fn): const off = this.on(topic, (e) => {off(); fn(e)})
once(h, topic, fn) ==
  LET w == Len(h.wrappers) + 1
      h1 == on(h, topic, Wrapper(w, fn))
  IN  [h1 EXCEPT !.wrappers = Append(@, [set |-> setOf(h, topic),
                                         fn |-> fn, calls |-> 0])]

\* The Unsubscribe closure: set && set.delete(fn). A Set that clear() took
\* out of the map is never read again, so only a mapped Set's items are kept.
unsubscribe(h, hd) ==
  [h EXCEPT !.map = [t \in Topics |->
     IF h.map[t].id = hd.set /\ hd.set # NoSet
       THEN [h.map[t] EXCEPT !.items = Without(@, hd.l)]
       ELSE h.map[t]]]

\* Emitter.off(topic, fn): this.map.get(topic)?.delete(fn)
off(h, topic, l) ==
  IF h.map[topic].id = NoSet THEN h
  ELSE [h EXCEPT !.map[topic].items = Without(@, l)]

\* Emitter.clear(topic): one key, or every key when topic is not given
clear(h, topic) ==
  IF topic # Undef THEN [h EXCEPT !.map[topic] = Absent]
  ELSE [h EXCEPT !.map = [t \in Topics |-> Absent]]

\* Emitter.emit: if (!set || set.size === 0) return
emitSkips(h, topic) == h.map[topic].items = <<>>

\* Mutant of passOrder: for (const fn of set), the Set itself is iterated.
passOrderLive(snapshot, live) == live

\* Emitter.emit: the listeners a pass calls, Array.from(set), given the
\* snapshot taken when the pass started and the Set as it is now
passOrder(snapshot, live) == snapshot

\* Mutant of onListenerError: the call fn(e) is not inside try/catch.
onListenerErrorPropagates == "propagates"

\* Emitter.emit: what happens to an error a listener throws
onListenerError == "caught"

\* What a consumer, or a listener while it runs, may do with the hub. An
\* Unsubscribe closure exists for every (Set, fn) that on() was called with;
\* calling one for a pair on() never saw deletes nothing, like a second call.
Eff(k, t, fn, hd) == [k |-> k, t |-> t, fn |-> fn, hd |-> hd]
Listeners(h) ==
  {Plain(fn) : fn \in Fns}
  \cup {Wrapper(w, h.wrappers[w].fn) : w \in 1..Len(h.wrappers)}
RegistryCalls(h) ==
  {Eff(k, t, fn, NoHandle) : k \in {"on", "once", "off"}, t \in Topics,
                             fn \in Fns}
  \cup {Eff("unsubscribe", "-", "-", Handle(s, l)) :
          s \in 1..(h.nextSet - 1), l \in Listeners(h)}
  \cup {Eff("clear", t, "-", NoHandle) : t \in Topics \cup {Undef}}
ListenerBodies(h) ==
  RegistryCalls(h)
  \cup {Eff("return", "-", "-", NoHandle), Eff("throw", "-", "-", NoHandle)}
  \cup {Eff("emit", t, "-", NoHandle) : t \in Topics}

\* The registry after one call
apply(h, e) ==
  CASE e.k = "on" -> on(h, e.t, Plain(e.fn))
    [] e.k = "once" -> once(h, e.t, e.fn)
    [] e.k = "off" -> off(h, e.t, Plain(e.fn))
    [] e.k = "unsubscribe" -> unsubscribe(h, e.hd)
    [] e.k = "clear" -> clear(h, e.t)
    [] OTHER -> h

\* A registry call that repeats what is already so: on() of a function that
\* is in the topic's Set, off() of one that is not, an Unsubscribe closure
\* whose function is not in its Set.
Redundant(h, e) ==
  CASE e.k = "on" -> Has(h.map[e.t].items, Plain(e.fn))
    [] e.k = "off" -> ~Has(h.map[e.t].items, Plain(e.fn))
    [] e.k = "unsubscribe" ->
         \A t \in Topics :
           h.map[t].id = e.hd.set => ~Has(h.map[t].items, e.hd.l)
    [] OTHER -> FALSE
Called(h, e) ==
  [k |-> e.k, redundant |-> Redundant(h, e), same |-> apply(h, e) = h]
NoCall == [k |-> "-", redundant |-> FALSE, same |-> TRUE]

\* One emit call in progress: the array Array.from(set) taken at its start,
\* the index of the next listener, the listeners called so far and the
\* position of the first listener that threw (0: none did).
Frame(h, topic) ==
  [topic |-> topic, snap |-> h.map[topic].items, i |-> 1, called |-> <<>>,
   threwAt |-> 0]

\* emit(topic, e) is called: it returns at once, or starts its pass
startEmit(h, stk, topic) ==
  IF emitSkips(h, topic) THEN stk ELSE Append(stk, Frame(h, topic))

Top == stack[Len(stack)]
orderOf(f, h) == passOrder(f.snap, h.map[f.topic].items)
ReplaceTop(stk, f) == [stk EXCEPT ![Len(stk)] = f]

\* The closure of once() runs: off(), then fn(e)
wrapperOff(h, l) ==
  IF l.kind = "once"
    THEN [unsubscribe(h, Handle(h.wrappers[l.id].set, l))
            EXCEPT !.wrappers[l.id].calls = @ + 1]
    ELSE h

InitHub ==
  /\ map = [t \in Topics |-> Absent]
  /\ nextSet = 1
  /\ wrappers = <<>>
  /\ stack = <<>>
  /\ escaped = FALSE
  /\ ncalls = 0
  /\ lastCall = NoCall

\* A consumer calls on / once / off / an Unsubscribe closure / clear.
Register ==
  /\ stack = <<>>
  /\ ncalls < MaxCalls
  /\ \E e \in RegistryCalls(H) :
       /\ CommitHub(apply(H, e))
       /\ lastCall' = Called(H, e)
  /\ ncalls' = ncalls + 1
  /\ UNCHANGED <<stack, escaped>>

\* A consumer calls bus.emit(topic, e).
Emit ==
  /\ stack = <<>>
  /\ ncalls < MaxCalls
  /\ \E t \in Topics : stack' = startEmit(H, stack, t)
  /\ ncalls' = ncalls + 1
  /\ lastCall' = NoCall
  /\ UNCHANGED <<map, nextSet, wrappers, escaped, bridgeVars, chanVars>>

\* The pass in progress calls its next listener, fn(e) inside try/catch; the
\* listener's body makes one call on the hub, returns or throws.
Invoke ==
  /\ stack # <<>>
  /\ Top.i <= Len(orderOf(Top, H))
  /\ LET f == Top
         l == orderOf(f, H)[f.i]
         h1 == wrapperOff(H, l)
     IN  \E e \in ListenerBodies(h1) :
           LET h2 == apply(h1, e)
               f2 == [f EXCEPT !.i = @ + 1, !.called = Append(@, l),
                               !.threwAt = IF e.k = "throw" /\ @ = 0
                                             THEN f.i ELSE @]
               stk == ReplaceTop(stack, f2)
               uncaught == e.k = "throw" /\ onListenerError # "caught"
               isCall == e.k \notin {"return", "throw"}
           IN  /\ isCall => ncalls < MaxCalls
               /\ ncalls' = IF isCall THEN ncalls + 1 ELSE ncalls
               /\ CommitHub(h2)
               /\ stack' = IF uncaught THEN <<>>
                           ELSE IF e.k = "emit" THEN startEmit(h2, stk, e.t)
                           ELSE stk
               /\ escaped' = (escaped \/ uncaught)
               /\ UNCHANGED lastCall

\* The pass in progress has called every listener: emit returns.
EmitReturn ==
  /\ stack # <<>>
  /\ Top.i > Len(orderOf(Top, H))
  /\ stack' = SubSeq(stack, 1, Len(stack) - 1)
  /\ UNCHANGED <<map, nextSet, wrappers, escaped, ncalls, lastCall,
                 bridgeVars, chanVars>>

NextHub ==
  \/ Register
  \/ Emit
  \/ Invoke
  \/ EmitReturn

\* ======================================================= Channel Transport
\* What a window message carries: an object whose type is "init", an object
\* of another type, the string "init" (it has no type), or null.
DataKinds == {"init", "other", "string", "null"}
\* ev.source: a frame's window, or null when that window is gone
Sources == {"frame", "other-frame", Null}

T == [connected |-> connected, nchan |-> nchan, port1 |-> port1,
      handshakes |-> handshakes, handlers |-> handlers]

\* Mutant of channelConnect: the connected flag is not consulted.
channelConnectAlways(c, win) ==
  IF win # Null
    THEN LET ch == c.nchan + 1
         IN  [c EXCEPT !.nchan = ch, !.port1 = ch,
                       !.handshakes = Append(@, [win |-> win, data |-> "init",
                                                 origin |-> "*",
                                                 transfer |-> <<ch>>]),
                       !.connected = TRUE]
    ELSE c

\* connect(win) of the Channel Transport
channelConnect(c, win) ==
  IF ~c.connected /\ win # Null
    THEN LET ch == c.nchan + 1
         IN  [c EXCEPT !.nchan = ch, !.port1 = ch,
                       !.handshakes = Append(@, [win |-> win, data |-> "init",
                                                 origin |-> "*",
                                                 transfer |-> <<ch>>]),
                       !.connected = TRUE]
    ELSE c

\* windowReceive(ev): reading ev.data.type of a null ev.data throws
windowReceive(c, kind, source) ==
  IF kind = "init" THEN channelConnect(c, source) ELSE c
windowReceiveResult(c, kind) == IF kind = "null" THEN "throw" ELSE "return"

\* channelReceive(ev): the handlers called with ev.data, in order
channelReceive(c, truthy) == IF truthy THEN c.handlers ELSE <<>>

\* channel.send(msg): port1.postMessage(msg) throws while port1 is undefined
channelSendResult(c) == IF c.port1 = NoPort THEN "throw" ELSE "return"

\* channel.addListener(fn), and the remover it returns
addListener(c, fn) == [c EXCEPT !.handlers = SetAdd(@, fn)]
removeListener(c, fn) == [c EXCEPT !.handlers = Without(@, fn)]

NoCalls == <<>>
DoneChannel(c, op, kind, source, ret, calls) ==
  /\ connected' = c.connected
  /\ nchan' = c.nchan
  /\ port1' = c.port1
  /\ handshakes' = c.handshakes
  /\ handlers' = c.handlers
  /\ lastT' = [op |-> op, kind |-> kind, source |-> source, ret |-> ret,
               calls |-> calls,
               prev |-> [op |-> lastT.op, kind |-> lastT.kind,
                         source |-> lastT.source],
               pre |-> T]
  /\ UNCHANGED <<bridgeVars, hubVars>>

InitChannel ==
  /\ connected = FALSE
  /\ nchan = 0
  /\ port1 = NoPort
  /\ handshakes = <<>>
  /\ handlers = <<>>
  /\ lastT = [op |-> "load", kind |-> NoInput, source |-> NoInput,
              ret |-> NoInput, calls |-> NoCalls,
              prev |-> [op |-> NoInput, kind |-> NoInput, source |-> NoInput],
              pre |-> [connected |-> FALSE, nchan |-> 0, port1 |-> NoPort,
                       handshakes |-> <<>>, handlers |-> <<>>]]

\* window.onmessage: a message event reaches the window
WindowMessage ==
  /\ nchan < MaxChannels
  /\ \E kind \in DataKinds, source \in Sources :
       DoneChannel(IF kind = "null" THEN T
                   ELSE windowReceive(T, kind, source),
                   "windowReceive", kind, source,
                   windowReceiveResult(T, kind), NoCalls)

\* port1.onmessage: the frame posts on the port it was handed
ChannelMessage ==
  /\ port1 # NoPort
  /\ \E truthy \in BOOLEAN :
       DoneChannel(T, "channelReceive",
                   IF truthy THEN "truthy" ELSE "falsy", NoInput, "return",
                   channelReceive(T, truthy))

\* A consumer calls channel.send(msg)
ChannelSend ==
  DoneChannel(T, "send", NoInput, NoInput, channelSendResult(T), NoCalls)

\* A consumer calls channel.addListener(fn)
AddListener ==
  \E fn \in Fns :
    DoneChannel(addListener(T, fn), "addListener", fn, NoInput, "return",
                NoCalls)

\* A consumer calls the remover that addListener(fn) returned
RemoveListener ==
  \E fn \in Fns :
    DoneChannel(removeListener(T, fn), "removeListener", fn, NoInput,
                "return", NoCalls)

NextChannel ==
  \/ WindowMessage
  \/ ChannelMessage
  \/ ChannelSend
  \/ AddListener
  \/ RemoveListener

\* ================================================================= claims
EventsOf(topic) == SelectSeq(events, LAMBDA e : e.topic = topic)
\* The last handler was connect() by one of its three callers, and it went
\* past its guard (it made the handshake post).
ConnectOps == {"load", "connect", "microtask"}
Handshook == last.op \in ConnectOps /\ Len(posts) = 1
NoOverride == targetOrigin \in {Undef, Null}

\* C1: when the handshake post throws during connect(), the error is caught,
\* no sender is installed, isReady() stays false and the controller stays
\* loaded-disconnected (no port, no "bridge:open").
C1_HandshakeFaultLeavesDisconnected ==
  (Handshook /\ posts[1].outcome = "throws" /\ last.pre.post = Null)
    => /\ post = Null
       /\ ~isReady(S)
       /\ port = NoPort
       /\ EventsOf("bridge:open") = <<>>

\* C2: with no explicit targetOrigin, the load event makes the controller
\* call postMessage exactly once, with {type:"connect"}, one transferable
\* port and the origin of the src the bridge was mounted with; isReady()
\* becomes true and one "bridge:open" carrying that origin is emitted. While
\* no load event has been seen, there is no post, no sender, no "bridge:open".
C2_LoadHandshake ==
  /\ (last.op = "load" /\ NoOverride)
       => /\ Len(posts) = 1
          /\ posts[1].type = "connect"
          /\ posts[1].origin = OriginOf(src)
          /\ posts[1].transfer = <<port>>
          /\ isReady(S)
          /\ Len(EventsOf("bridge:open")) = 1
          /\ EventsOf("bridge:open")[1].payload = OriginOf(src)
  /\ ~loaded
       => /\ posts = <<>>
          /\ ~isReady(S)
          /\ EventsOf("bridge:open") = <<>>

C2_Witness ==
  /\ last.op = "load"
  /\ last.prev = "mount"
  /\ targetOrigin = Undef
  /\ src = UrlA
  /\ posts = <<[type |-> "connect", origin |-> "https://example.test",
                transfer |-> <<1>>, outcome |-> "ok"]>>
  /\ isReady(S)

\* C3: disconnect() on a connected bridge leaves no sender (isReady() false)
\* and emits "bridge:close"; a send(x) with no sender returns false and calls
\* no outbound function; and in every state an installed sender forwards to
\* the controller's current port, which is open.
C3_NoStaleSender ==
  /\ last.op = "disconnect"
       => /\ post = Null
          /\ ~isReady(S)
          /\ Len(EventsOf("bridge:close")) = 1
  /\ (last.op = "send" /\ last.pre.post = Null)
       => /\ sent = <<>>
          /\ last.ret = IF last.outcome = "throwIfOffline" THEN "throw"
                        ELSE "false"
  /\ post # Null => port # NoPort /\ port \in openPorts
  /\ \A i \in 1..Len(sent) : sent[i].open

C3_Witness ==
  /\ last.op = "send"
  /\ last.prev = "disconnect"
  /\ last.ret = "false"
  /\ nextPort > 1

\* C4: update({src: newUrl}) with newUrl different from the frame's current
\* source disconnects before the frame source changes, sets the frame source
\* to newUrl, resets the loaded flag and queues no reconnect; and while no
\* fresh load event has been seen there is no sender and no "bridge:open".
C4_UpdateSrcReloads ==
  /\ (/\ last.op = "update"
      /\ last.nextSrc \in Urls
      /\ last.nextSrc # last.pre.frameSrc
      /\ last.pre.iframeEl # Null)
       => /\ frameSrc = last.nextSrc
          /\ ~loaded
          /\ post = Null
          /\ micro = last.pre.micro
          /\ Len(EventsOf("bridge:close")) = 1
          /\ EventsOf("bridge:close")[1].frameSrc = last.pre.frameSrc
  /\ ~loaded => post = Null /\ EventsOf("bridge:open") = <<>>

\* C5: after update({targetOrigin: X}) with src unchanged on a loaded bridge,
\* the deferred reconnect posts the handshake to X and emits "bridge:open"
\* with X; when update gave no targetOrigin, the configured one is used.
WantedOrigin ==
  IF last.newOrigin # Undef THEN last.newOrigin ELSE OriginOf(src)
C5_ReconnectUsesUpdatedOrigin ==
  (last.op = "microtask" /\ Len(posts) = 1 /\ last.newOrigin # Null)
    => /\ posts[1].origin = WantedOrigin
       /\ EventsOf("bridge:open")[1].payload = WantedOrigin

\* C6: on every connect() with no explicit target origin, the origin of the
\* handshake post and of "bridge:open" is the origin of the frame's current
\* source URL, also after update({src: newUrl}) and the new load event.
C6_OriginFollowsFrameSource ==
  (Handshook /\ NoOverride)
    => /\ posts[1].origin = OriginOf(frameSrc)
       /\ EventsOf("bridge:open")[1].payload = OriginOf(frameSrc)

\* C7: a second destroy() raises no error and emits no further
\* "bridge:close"; after the first destroy() the element is null and stays so.
C7_DestroyIdempotent ==
  /\ last.op = "destroy" => iframeEl = Null
  /\ (last.op # "mount" /\ last.pre.iframeEl = Null) => iframeEl = Null
  /\ (last.op = "destroy" /\ last.pre.iframeEl = Null)
       => EventsOf("bridge:close") = <<>>

\* C8: a listener registered with once() is called at most once in total,
\* over any emissions of its topic, nested ones included.
C8_OnceAtMostOnce ==
  \A w \in 1..Len(wrappers) : wrappers[w].calls <= 1

\* C9: an emit pass calls the listeners that were subscribed when it started,
\* each once, in subscription order, whatever listeners add or remove while
\* it runs; and no pass starts for a topic without listeners.
NoDuplicates(seq) ==
  \A i, j \in 1..Len(seq) : seq[i] = seq[j] => i = j
Returning(f) == f.i > Len(orderOf(f, H))
C9_EmitSnapshot ==
  \A k \in 1..Len(stack) :
    LET f == stack[k]
    IN  /\ f.snap # <<>>
        /\ NoDuplicates(f.snap)
        /\ Len(f.called) <= Len(f.snap)
        /\ f.called = SubSeq(f.snap, 1, Len(f.called))
        /\ (k = Len(stack) /\ Returning(f)) => f.called = f.snap

\* A pass about to return, during which one of its listeners was removed
\* (and still called) and another listener was added (and not called).
C9_Witness ==
  /\ stack # <<>>
  /\ Returning(Top)
  /\ Len(Top.snap) >= 2
  /\ Top.called = Top.snap
  /\ \E i \in 1..Len(Top.snap) : ~Has(map[Top.topic].items, Top.snap[i])
  /\ \E i \in 1..Len(map[Top.topic].items) :
       ~Has(Top.snap, map[Top.topic].items[i])
  /\ map[Top.topic].id = 1

\* C10: an error thrown by a listener is caught by emit: the listeners after
\* it in the snapshot are still called, and no error reaches emit's caller.
C10_ListenerErrorCaught ==
  /\ ~escaped
  /\ \A k \in 1..Len(stack) :
       LET f == stack[k]
       IN  f.threwAt # 0
             => /\ f.threwAt <= Len(f.called)
                /\ (k = Len(stack) /\ Returning(f)) => f.called = f.snap

C10_Witness ==
  /\ stack # <<>>
  /\ Returning(Top)
  /\ Top.threwAt = 1
  /\ Len(Top.snap) >= 2
  /\ Top.called = Top.snap

\* C11: send(x) returns true, after calling the sender once with x, exactly
\* when a sender is installed (isReady() true); with no sender it returns
\* false, or throws when throwIfOffline was given, and changes nothing.
C11_SendIffReady ==
  last.op = "send"
    => /\ (last.ret = "true") <=> isReady(last.pre)
       /\ isReady(last.pre) => Len(sent) = 1 /\ sent[1].port = last.pre.port
       /\ ~isReady(last.pre)
            => /\ last.ret = IF last.outcome = "throwIfOffline" THEN "throw"
                             ELSE "false"
               /\ sent = <<>>
       /\ S = last.pre

C11_Witness ==
  /\ last.op = "send"
  /\ last.ret = "true"
  /\ Len(sent) = 1
  /\ sent[1].open

\* C12: every setSender call emits exactly one "bridge:sender" event, whose
\* flag is true for a function and false for null, also when the sender was
\* already clear: one {ready:true} in a connect() that proceeds, one
\* {ready:false} in every disconnect(), destroy() and update().
SenderEvents == EventsOf("bridge:sender")
C12_SetSenderAlwaysEmits ==
  /\ Handshook
       => Len(SenderEvents) = 1 /\ SenderEvents[1].payload = "true"
  /\ last.op \in {"disconnect", "destroy", "update"}
       => Len(SenderEvents) = 1 /\ SenderEvents[1].payload = "false"
  /\ \A i \in 1..Len(SenderEvents) :
       (SenderEvents[i].payload = "true") <=> SenderEvents[i].ready

\* setSender(null) while no sender is installed, after a connected session.
C12_Witness ==
  /\ last.op = "disconnect"
  /\ last.prev = "disconnect"
  /\ last.pre.post = Null
  /\ nextPort > 1
  /\ Len(SenderEvents) = 1
  /\ SenderEvents[1].payload = "false"

\* C13: an inbound message on the connected port that is an addressed
\* envelope {topic, payload} is emitted under its topic with its payload and
\* then as "bridge:message" with {topic, payload}; any other message causes
\* one emission only, "bridge:message" carrying the data as received.
Addressed(v) == v.tag = "envelope" /\ v.topic # ""
C13_InboundDemultiplexed ==
  last.op = "message"
    => IF Addressed(last.data)
         THEN /\ Len(events) = 2
              /\ events[1].topic = last.data.topic
              /\ events[1].payload = last.data.payload
              /\ events[2].topic = "bridge:message"
              /\ events[2].payload = last.data
         ELSE /\ Len(events) = 1
              /\ events[1].topic = "bridge:message"
              /\ events[1].payload = last.data

\* C14: a controller has at most one open port, and it is the current one; a
\* re-handshake closes the previous port before it creates the next; after
\* disconnect(), destroy() and update() no port is open.
DisconnectOps == {"disconnect", "destroy", "update"}
C14_OneLivePort ==
  /\ Cardinality(openPorts) <= 1
  /\ openPorts \subseteq {port}
  /\ Handshook
       => /\ port = last.pre.nextPort
          /\ openPorts = {port}
          /\ last.pre.port \notin openPorts
  /\ last.op \in DisconnectOps => port = NoPort /\ openPorts = {}

\* A re-handshake while the previous port was still open.
C14_Witness ==
  /\ Handshook
  /\ last.pre.port \in last.pre.openPorts
  /\ openPorts = {port}
  /\ port # last.pre.port

\* C15: the Channel Transport makes its handshake (a new channel, one end
\* posted to the frame's window) at most once; an init signal received while
\* connected is ignored; an init signal whose source window is unavailable is
\* skipped without an error and leaves the transport unconnected, so that a
\* later init signal completes the handshake.
InitSignal == lastT.op = "windowReceive" /\ lastT.kind = "init"
C15_HandshakeAtMostOnce ==
  /\ nchan <= 1
  /\ Len(handshakes) = nchan
  /\ connected <=> nchan = 1
  /\ connected <=> port1 # NoPort
  /\ (InitSignal /\ lastT.pre.connected) => T = lastT.pre
  /\ (InitSignal /\ ~lastT.pre.connected /\ lastT.source = Null)
       => /\ T = lastT.pre
          /\ ~connected
          /\ lastT.ret = "return"
  /\ (InitSignal /\ ~lastT.pre.connected /\ lastT.source # Null)
       => /\ connected
          /\ handshakes = <<[win |-> lastT.source, data |-> "init",
                             origin |-> "*", transfer |-> <<port1>>]>>
          /\ lastT.ret = "return"

\* An init signal completes the handshake after an earlier one was skipped
\* because its source window was unavailable.
C15_Witness ==
  /\ InitSignal
  /\ lastT.source # Null
  /\ ~lastT.pre.connected
  /\ connected
  /\ lastT.prev = [op |-> "windowReceive", kind |-> "init", source |-> Null]

\* C16: update() with the source unchanged does not reconnect before it
\* returns: the bridge is then disconnected and one reconnect is queued. The
\* queued reconnect runs connect() once, which installs a sender only if the
\* frame is still mounted and loaded.
SameSrcUpdate ==
  last.op = "update" /\ ~needsSrcChange(last.pre, last.nextSrc)
C17_DuplicateAndRepeatAreNoOps ==
  /\ lastCall.redundant => lastCall.same
  /\ \A t \in Topics : NoDuplicates(map[t].items)

\* on(T, f) again while the Set of T holds f and then g.
C17_Witness ==
  /\ lastCall.k = "on"
  /\ lastCall.redundant
  /\ lastCall.same
  /\ \E t \in Topics : map[t].items = <<Plain("f"), Plain("g")>>

\* C18: the registry has a key for a topic exactly when at least one listener
\* is registered for it.
C18_KeyIffListeners ==
  \A t \in Topics : (map[t].id # NoSet) <=> (map[t].items # <<>>)

\* C19: destroy() is terminal: once the frame is removed, no queued microtask,
\* load event, connect() or update() installs a sender, opens a port, posts a
\* handshake or emits "bridge:open".
Destroyed == ~attached
C19_DestroyIsTerminal ==
  Destroyed
    => /\ iframeEl = Null
       /\ ~listening
       /\ post = Null
       /\ port = NoPort
       /\ openPorts = {}
       /\ posts = <<>>
       /\ EventsOf("bridge:open") = <<>>

\* The reconnect queued by update() runs after destroy(), on a frame that had
\* loaded.
C19_Witness ==
  /\ Destroyed
  /\ last.op = "microtask"
  /\ last.pre.loaded
  /\ ~last.pre.attached

\* C20: a connect() that proceeds emits "bridge:sender" {ready:true} and then
\* "bridge:open", so isReady() is true for the open listeners; a disconnect()
\* emits "bridge:sender" {ready:false} and then "bridge:close", with the port
\* closed and isReady() false for the close listeners.
C20_SenderBeforeLifecycleEvent ==
  /\ Handshook
       => /\ Len(events) = 2
          /\ events[1].topic = "bridge:sender"
          /\ events[1].payload = "true"
          /\ events[2].topic = "bridge:open"
          /\ events[2].ready
          /\ events[2].portOpen
  /\ last.op \in DisconnectOps
       => /\ Len(events) = 2
          /\ events[1].topic = "bridge:sender"
          /\ events[1].payload = "false"
          /\ events[2].topic = "bridge:close"
          /\ ~events[2].ready
          /\ last.pre.port \notin events[2].openPorts

\* disconnect() of a connected bridge.
C20_Witness ==
  /\ last.op = "disconnect"
  /\ last.pre.post # Null
  /\ last.pre.port \in last.pre.openPorts
  /\ Len(events) = 2
  /\ events[2].topic = "bridge:close"

\* --------------------------------------------------------- specifications
\* One mounted bridge, with any src and targetOrigin options, and the bus.
Init == InitBridge /\ InitHub /\ InitChannel
SpecBridge == Init /\ [][NextBridge]_vars

\* The Emitter, beside a bridge mounted with { src } alone.
InitMounted == Init /\ src = UrlA /\ targetOrigin = Undef
SpecHub == InitMounted /\ [][NextHub]_vars
SpecChannel == InitMounted /\ [][NextChannel]_vars

====
